---- MODULE Spec2Model ----
(***************************************************************************)
(* Model of src/tasksB.py: the path guard B12 and the task functions B3,   *)
(* B5, B6, B7, B9 and the HTTP handler B10 that consult it.                *)
(*                                                                         *)
(* A Python string is a sequence of one-character strings.  An argument is *)
(* a record [t, s]: t = "str" with the characters s, or t = "none" for a   *)
(* value that is no path at all (None), for which Path(...) raises.        *)
(* The filesystem is a function from locations (sequences of segments,     *)
(* resolved from the root) to contents, plus the set of directories.       *)
(***************************************************************************)
EXTENDS Integers, Sequences, FiniteSets

VARIABLES files, dirs, call, res

vars == <<files, dirs, call, res>>

\* Longest token sequence the guard specification draws a path string from.
MaxTokens == 7

(***************************************************************************)
(* Strings                                                                 *)
(***************************************************************************)
RECURSIVE Flatten(_)
Flatten(ss) == IF ss = <<>> THEN <<>> ELSE Head(ss) \o Flatten(Tail(ss))

S(t) == [t |-> "str", s |-> t]
NoneArg == [t |-> "none", s |-> <<>>]

Data == <<"d", "a", "t", "a">>
DataRoot == <<"/">> \o Data

\* str.startswith
startswith(s, prefix) ==
    /\ Len(s) >= Len(prefix)
    /\ SubSeq(s, 1, Len(prefix)) = prefix

\* str.endswith
endswith(s, suffix) ==
    /\ Len(s) >= Len(suffix)
    /\ SubSeq(s, Len(s) - Len(suffix) + 1, Len(s)) = suffix

\* index of the last "/" of s, 0 when there is none (str.rfind + 1)
RECURSIVE rfind_slash(_)
rfind_slash(s) ==
    IF s = <<>> THEN 0
    ELSE IF s[Len(s)] = "/" THEN Len(s)
    ELSE rfind_slash(SubSeq(s, 1, Len(s) - 1))

\* number of leading "/" characters
RECURSIVE leading_slashes(_)
leading_slashes(s) ==
    IF s = <<>> \/ Head(s) # "/" THEN 0 ELSE 1 + leading_slashes(Tail(s))

\* str.rstrip('/')
RECURSIVE rstrip_slash(_)
rstrip_slash(s) ==
    IF s # <<>> /\ s[Len(s)] = "/" THEN rstrip_slash(SubSeq(s, 1, Len(s) - 1))
    ELSE s

\* str.split('/'): the segments between the slashes, empty ones included
RECURSIVE split_slash(_, _)
split_slash(s, cur) ==
    IF s = <<>> THEN <<cur>>
    ELSE IF Head(s) = "/" THEN <<cur>> \o split_slash(Tail(s), <<>>)
    ELSE split_slash(Tail(s), Append(cur, Head(s)))

\* '/'.join(parts)
RECURSIVE join_slash(_)
join_slash(parts) ==
    IF parts = <<>> THEN <<>>
    ELSE IF Len(parts) = 1 THEN parts[1]
    ELSE parts[1] \o <<"/">> \o join_slash(Tail(parts))

(***************************************************************************)
(* pathlib.Path as B12 uses it (line 33 to 35)                             *)
(***************************************************************************)
\* Path(filepath) raises TypeError for a value that is no str or PathLike.
PathRaises(filepath) == filepath.t # "str"

\* The root pathlib keeps: exactly two leading slashes stay "//", any other
\* number of them is "/".
path_root(s) ==
    IF leading_slashes(s) = 0 THEN <<>>
    ELSE IF leading_slashes(s) = 2 THEN <<"/", "/">>
    ELSE <<"/">>

\* The components pathlib keeps: empty and "." segments are dropped, ".."
\* segments are kept.
path_parts(s) ==
    SelectSeq(split_slash(s, <<>>), LAMBDA seg : seg # <<>> /\ seg # <<".">>)

\* Path.is_absolute()
is_absolute(s) == path_root(s) # <<>>

\* str(Path(s))
path_str(s) ==
    IF path_root(s) = <<>> /\ path_parts(s) = <<>> THEN <<".">>
    ELSE path_root(s) \o join_slash(path_parts(s))

\* A guard that also refuses a relative path holding a ".." segment.
B12_strict(filepath) ==
    IF PathRaises(filepath) THEN [ret |-> FALSE, log |-> <<"error">>, exc |-> FALSE]
    ELSE IF is_absolute(filepath.s)
    THEN [ret |-> startswith(path_str(filepath.s), DataRoot), log |-> <<>>,
          exc |-> FALSE]
    ELSE [ret |-> \A i \in 1..Len(path_parts(filepath.s)) :
                      path_parts(filepath.s)[i] # <<".", ".">>,
          log |-> <<>>, exc |-> FALSE]

\* A guard that compares the first component with "data" instead of the
\* string prefix.
B12_component(filepath) ==
    IF PathRaises(filepath) THEN [ret |-> FALSE, log |-> <<"error">>, exc |-> FALSE]
    ELSE IF is_absolute(filepath.s)
    THEN [ret |-> /\ path_root(filepath.s) = <<"/">>
                  /\ path_parts(filepath.s) # <<>>
                  /\ path_parts(filepath.s)[1] = Data,
          log |-> <<>>, exc |-> FALSE]
    ELSE [ret |-> TRUE, log |-> <<>>, exc |-> FALSE]

\* A guard without the try/except: the exception reaches the caller.
B12_uncaught(filepath) ==
    IF PathRaises(filepath) THEN [ret |-> FALSE, log |-> <<>>, exc |-> TRUE]
    ELSE IF is_absolute(filepath.s)
    THEN [ret |-> startswith(path_str(filepath.s), DataRoot), log |-> <<>>,
          exc |-> FALSE]
    ELSE [ret |-> TRUE, log |-> <<>>, exc |-> FALSE]

\* B12: the value returned, the log entries written, and whether an
\* exception leaves the function.
B12(filepath) ==
    IF PathRaises(filepath) THEN [ret |-> FALSE, log |-> <<"error">>, exc |-> FALSE]
    ELSE IF is_absolute(filepath.s)
    THEN [ret |-> startswith(path_str(filepath.s), DataRoot), log |-> <<>>,
          exc |-> FALSE]
    ELSE [ret |-> TRUE, log |-> <<>>, exc |-> FALSE]

(***************************************************************************)
(* The filesystem the tasks act on                                         *)
(***************************************************************************)
Etc == <<"e", "t", "c">>
App == <<"a", "p", "p">>

\* The working directory of the process: relative paths resolve against it.
Cwd == <<App>>

\* The location a path string names: "." and empty segments are skipped, ".."
\* steps to the parent (the root is its own parent).
RECURSIVE walk(_, _)
walk(loc, segs) ==
    IF segs = <<>> THEN loc
    ELSE IF Head(segs) = <<>> \/ Head(segs) = <<".">> THEN walk(loc, Tail(segs))
    ELSE IF Head(segs) = <<".", ".">>
    THEN walk(IF loc = <<>> THEN loc ELSE SubSeq(loc, 1, Len(loc) - 1), Tail(segs))
    ELSE walk(Append(loc, Head(segs)), Tail(segs))

resolve(s) ==
    walk(IF leading_slashes(s) > 0 THEN <<>> ELSE Cwd, split_slash(s, <<>>))

parent(loc) == IF loc = <<>> THEN loc ELSE SubSeq(loc, 1, Len(loc) - 1)

\* Whether a location is at or under /data.
UnderData(loc) == Len(loc) >= 1 /\ loc[1] = Data

\* os.path.dirname (posixpath): the text before the last slash, its trailing
\* slashes stripped unless it is made of slashes only.
os_path_dirname(s) ==
    LET head == SubSeq(s, 1, rfind_slash(s))
    IN IF head # <<>> /\ leading_slashes(head) # Len(head)
       THEN rstrip_slash(head) ELSE head

\* The locations os.makedirs(name) visits, outermost first: one per segment.
makedirs_locs(name) ==
    LET segs == split_slash(name, <<>>)
        base == IF leading_slashes(name) > 0 THEN <<>> ELSE Cwd
    IN [i \in 1..Len(segs) |-> walk(base, SubSeq(segs, 1, i))]

\* os.makedirs on a non-empty name: the directories are made outermost first
\* up to the first location that is a file, or that is missing while the
\* filesystem denies writes (io); either raises.  [ok, dirs].
makedirs_walk(name, fs, ds, io) ==
    LET locs == makedirs_locs(name)
        bad(i) == locs[i] \in DOMAIN fs \/ (locs[i] \notin ds /\ io # "ok")
        stop == IF \E i \in 1..Len(locs) : bad(i)
                THEN CHOOSE i \in 1..Len(locs) :
                        bad(i) /\ \A j \in 1..(i - 1) : ~bad(j)
                ELSE Len(locs) + 1
    IN [ok |-> stop > Len(locs),
        dirs |-> ds \cup {locs[i] : i \in 1..(stop - 1)}]

\* os.makedirs(name, exist_ok=True): the empty name raises FileNotFoundError.
os_makedirs(name, fs, ds, io) ==
    IF name = <<>> THEN [ok |-> FALSE, dirs |-> ds]
    ELSE makedirs_walk(name, fs, ds, io)

\* open(path, 'w'): whether the file can be created or truncated.
open_w(s, fs, ds, io) ==
    LET loc == resolve(s)
    IN /\ io = "ok"
       /\ s # <<>>
       /\ s[Len(s)] # "/"
       /\ loc # <<>>
       /\ loc \notin ds
       /\ parent(loc) \in ds

\* open(path, 'r'): whether the file exists.
open_r(s, fs) == s # <<>> /\ s[Len(s)] # "/" /\ resolve(s) \in DOMAIN fs

\* The filesystem with content c written at the location of s.
write_file(fs, s, c) ==
    [l \in DOMAIN fs \cup {resolve(s)} |-> IF l = resolve(s) THEN c ELSE fs[l]]

\* Contents a UTF-8 read decodes.
TextContents == {"md", "csv", "secret", "text", "empty"}

(***************************************************************************)
(* Task results.  ret is the value returned ("True", "False", "None",      *)
(* "rows", or the HTTP status of B10), body the rows returned, detail the  *)
(* error B10 reports, log the levels of the log entries written, eff the   *)
(* calls made to the outside in order, files and dirs the filesystem left. *)
(***************************************************************************)
R(ret, body, detail, log, eff, fs, ds) ==
    [ret |-> ret, body |-> body, detail |-> detail, log |-> log, eff |-> eff,
     files |-> fs, dirs |-> ds]

\* One call on a path, and one call that touches no path.
Eff(op, s) == [op |-> op, path |-> s, loc |-> resolve(s)]
Net(op) == [op |-> op, path |-> <<>>, loc |-> <<>>]

(***************************************************************************)
(* B3: fetch a URL and save the response.  e.http is what the HTTP GET     *)
(* does: "json" and "raw" are 2xx responses by content type, "bad_json" a  *)
(* 2xx response declared JSON whose body does not parse, "error" a failed  *)
(* request or status.                                                      *)
(***************************************************************************)
B3_guard(save_path) == B12(save_path).ret

\* The persist step every writing task shares its shape with: makedirs on the
\* dirname, then open for writing.  [ok, eff, dirs].
persist(path, fs, ds, io) ==
    LET name == os_path_dirname(path)
        md == os_makedirs(name, fs, ds, io)
    IN IF ~md.ok
       THEN [ok |-> FALSE, eff |-> <<Eff("makedirs", name)>>, dirs |-> md.dirs]
       ELSE IF ~open_w(path, fs, md.dirs, io)
       THEN [ok |-> FALSE, eff |-> <<Eff("makedirs", name)>>, dirs |-> md.dirs]
       ELSE [ok |-> TRUE,
             eff |-> <<Eff("makedirs", name), Eff("write", path)>>,
             dirs |-> md.dirs]

B3(e, save_path, fs, ds) ==
    IF ~B3_guard(save_path)
    THEN R("False", <<>>, "", B12(save_path).log \o <<"error">>, <<>>, fs, ds)
    ELSE IF e.http = "error"
    THEN R("False", <<>>, "", <<"error">>, <<Net("http_get")>>, fs, ds)
    ELSE LET p == persist(save_path.s, fs, ds, e.io)
             eff == <<Net("http_get")>> \o p.eff
         IN IF ~p.ok
            THEN R("False", <<>>, "", <<"error">>, eff, fs, p.dirs)
            ELSE IF e.http = "bad_json"
            THEN R("False", <<>>, "", <<"error">>, eff,
                   write_file(fs, save_path.s, "empty"), p.dirs)
            ELSE R("True", <<>>, "", <<"info">>, eff,
                   write_file(fs, save_path.s,
                              IF e.http = "json" THEN "text" ELSE "raw"),
                   p.dirs)

(***************************************************************************)
(* B6: scrape a page.  Any 2xx body parses as HTML.                        *)
(***************************************************************************)
B6_guard(output_filename) == B12(output_filename).ret

B6(e, output_filename, fs, ds) ==
    IF ~B6_guard(output_filename)
    THEN R("False", <<>>, "", B12(output_filename).log, <<>>, fs, ds)
    ELSE IF e.http = "error"
    THEN R("False", <<>>, "", <<"error">>, <<Net("http_get")>>, fs, ds)
    ELSE LET p == persist(output_filename.s, fs, ds, e.io)
             eff == <<Net("http_get")>> \o p.eff
         IN IF ~p.ok
            THEN R("False", <<>>, "", <<"error">>, eff, fs, p.dirs)
            ELSE R("True", <<>>, "", <<"info">>, eff,
                   write_file(fs, output_filename.s, "text"), p.dirs)

\* The guard of a task with two paths: "not B12(a) or not B12(b)" evaluates
\* B12(b) only when B12(a) passed.  [ok, log].
guard2(a, b) ==
    IF ~B12(a).ret THEN [ok |-> FALSE, log |-> B12(a).log]
    ELSE [ok |-> B12(b).ret, log |-> B12(a).log \o B12(b).log]

(***************************************************************************)
(* B7: Image is never imported (line 6 is a comment), so Image.open raises *)
(* NameError, which the except clause turns into False.                    *)
(***************************************************************************)
B7_guard(image_path, output_path) == guard2(image_path, output_path).ok

B7(e, image_path, output_path, fs, ds) ==
    IF ~B7_guard(image_path, output_path)
    THEN R("False", <<>>, "", guard2(image_path, output_path).log, <<>>, fs, ds)
    ELSE R("False", <<>>, "", <<"error">>, <<>>, fs, ds)

(***************************************************************************)
(* B9: Markdown to HTML.  e.extras = "bad" is a list of extensions that     *)
(* markdown.markdown cannot load, which raises.                            *)
(***************************************************************************)
B9_guard(md_path, output_path) == guard2(md_path, output_path).ok

B9(e, md_path, output_path, fs, ds) ==
    IF ~B9_guard(md_path, output_path)
    THEN R("False", <<>>, "", guard2(md_path, output_path).log, <<>>, fs, ds)
    ELSE IF ~open_r(md_path.s, fs)
    THEN R("False", <<>>, "", <<"error">>, <<>>, fs, ds)
    ELSE IF fs[resolve(md_path.s)] \notin TextContents
    THEN R("False", <<>>, "", <<"error">>, <<Eff("read", md_path.s)>>, fs, ds)
    ELSE IF e.extras = "bad"
    THEN R("False", <<>>, "", <<"error">>,
           <<Eff("read", md_path.s), Net("markdown")>>, fs, ds)
    ELSE LET p == persist(output_path.s, fs, ds, e.io)
             eff == <<Eff("read", md_path.s), Net("markdown")>> \o p.eff
         IN IF ~p.ok
            THEN R("False", <<>>, "", <<"error">>, eff, fs, p.dirs)
            ELSE R("True", <<>>, "", <<"info">>, eff,
                   write_file(fs, output_path.s, "text"), p.dirs)

(***************************************************************************)
(* B5: run a query and save the rows.  A database file holds the table t   *)
(* ("sqlite_t", "duck_t") or holds no table ("sqlite_0", "duck_0", and     *)
(* for either engine the 0-byte file).  e.query is "select1" (SELECT 1 AS  *)
(* x, no table read), "drop" (DROP TABLE t, committed as it runs) or "bad" *)
(* (a statement the engine rejects).  e.desc says whether the analytical   *)
(* engine gives a result description for a statement without rows; the     *)
(* embedded engine gives None.                                             *)
(***************************************************************************)
\* A guard that checks the database path only.
B5_guard_db_only(db_path, output_filename) == B12(db_path).ret

B5_guard(db_path, output_filename) == guard2(db_path, output_filename).ok

DotDb == <<".", "d", "b">>

\* Whether connect(db_path) creates the file: it is missing, its directory
\* exists and the filesystem lets it be written.
connect_creates(s, fs, ds, io) ==
    /\ resolve(s) \notin DOMAIN fs
    /\ open_w(s, fs, ds, io)

\* sqlite3.connect / duckdb.connect: [ok, files].  sqlite3 opens any existing
\* file lazily and the empty name as a private temporary database; duckdb
\* reads the file's header as it connects.
connect(is_sqlite, s, fs, ds, io) ==
    IF is_sqlite /\ s = <<>> THEN [ok |-> TRUE, files |-> fs]
    ELSE IF connect_creates(s, fs, ds, io)
    THEN [ok |-> TRUE,
          files |-> write_file(fs, s, IF is_sqlite THEN "empty" ELSE "duck_0")]
    ELSE IF ~open_r(s, fs) THEN [ok |-> FALSE, files |-> fs]
    ELSE [ok |-> is_sqlite \/ fs[resolve(s)] \in {"duck_t", "duck_0", "empty"},
          files |-> fs]

\* cursor.execute(query); cursor.fetchall(): [ok, rows, desc, files].
execute(is_sqlite, q, dsc, s, fs) ==
    LET c == IF s # <<>> /\ resolve(s) \in DOMAIN fs THEN fs[resolve(s)] ELSE "none"
    IN IF q = "select1"
       THEN [ok |-> TRUE, rows |-> << <<1>> >>, desc |-> "cols", files |-> fs]
       ELSE IF q = "drop" /\ is_sqlite /\ c = "sqlite_t"
       THEN [ok |-> TRUE, rows |-> <<>>, desc |-> "none",
             files |-> write_file(fs, s, "sqlite_0")]
       ELSE IF q = "drop" /\ ~is_sqlite /\ c = "duck_t"
       THEN [ok |-> TRUE, rows |-> <<>>, desc |-> dsc,
             files |-> write_file(fs, s, "duck_0")]
       ELSE [ok |-> FALSE, rows |-> <<>>, desc |-> "none", files |-> fs]

B5(e, db_path, output_filename, fs, ds) ==
    IF ~B5_guard(db_path, output_filename)
    THEN R("None", <<>>, "", guard2(db_path, output_filename).log, <<>>, fs, ds)
    ELSE
    LET is_sqlite == endswith(db_path.s, DotDb)
        cn == connect(is_sqlite, db_path.s, fs, ds, e.io)
        ex == execute(is_sqlite, e.query, e.desc, db_path.s, cn.files)
        p == persist(output_filename.s, ex.files, ds, e.io)
        eff1 == <<Eff("connect", db_path.s)>>
        eff2 == eff1 \o <<Eff("execute", db_path.s)>>
        eff3 == eff2 \o p.eff
    IN IF ~cn.ok
       THEN R("None", <<>>, "", <<"error">>,
              IF open_r(db_path.s, fs) THEN <<Eff("read", db_path.s)>> ELSE <<>>,
              fs, ds)
       ELSE IF ~ex.ok
       THEN R("None", <<>>, "", <<"error">>, eff1, cn.files, ds)
       ELSE IF ~p.ok
       THEN R("None", <<>>, "", <<"error">>, eff3, ex.files, p.dirs)
       ELSE IF ex.desc = "none"
       THEN R("None", <<>>, "", <<"error">>, eff3,
              write_file(ex.files, output_filename.s, "empty"), p.dirs)
       ELSE R("rows", ex.rows, "", <<"info">>, eff3 \o <<Net("close")>>,
              write_file(ex.files, output_filename.s, "text"), p.dirs)

(***************************************************************************)
(* B10: POST /filter_csv.  The request is a FilterRequest the framework    *)
(* has validated.  A file with content "csv" holds the table CsvRows.      *)
(***************************************************************************)
CsvColumns == {"status", "id"}

CsvRows ==
    << [status |-> "active", id |-> "1"],
       [status |-> "inactive", id |-> "2"],
       [status |-> "active", id |-> "3"] >>

\* pd.read_csv(csv_path): the frame's rows, or the error raised.
read_csv(s, fs) ==
    IF ~open_r(s, fs) THEN [ok |-> FALSE, err |-> "FileNotFoundError", rows |-> <<>>,
                            cols |-> {}]
    ELSE IF fs[resolve(s)] = "csv"
    THEN [ok |-> TRUE, err |-> "", rows |-> CsvRows, cols |-> CsvColumns]
    ELSE IF fs[resolve(s)] = "empty"
    THEN [ok |-> FALSE, err |-> "EmptyDataError", rows |-> <<>>, cols |-> {}]
    ELSE IF fs[resolve(s)] \notin TextContents
    THEN [ok |-> FALSE, err |-> "UnicodeDecodeError", rows |-> <<>>, cols |-> {}]
    ELSE [ok |-> TRUE, err |-> "", rows |-> <<>>, cols |-> {}]

\* A filter that keeps every row.
filter_rows_all(rows, col, val) == rows

\* df[df[filter_column] == filter_value].to_dict(orient='records')
filter_rows(rows, col, val) == SelectSeq(rows, LAMBDA row : row[col] = val)

B10_guard(csv_path) == B12(csv_path).ret

B10(e, csv_path, fs, ds) ==
    IF ~B10_guard(csv_path)
    THEN R("403", <<>>, "Access denied", B12(csv_path).log, <<>>, fs, ds)
    ELSE LET df == read_csv(csv_path.s, fs)
         IN IF ~df.ok
            THEN R("400", <<>>, df.err, <<>>,
                   IF open_r(csv_path.s, fs) THEN <<Eff("read", csv_path.s)>>
                   ELSE <<>>,
                   fs, ds)
            ELSE IF e.col \notin df.cols
            THEN R("400", <<>>, "KeyError", <<>>, <<Eff("read", csv_path.s)>>,
                   fs, ds)
            ELSE R("200", filter_rows(df.rows, e.col, e.val), "", <<>>,
                   <<Eff("read", csv_path.s)>>, fs, ds)

(***************************************************************************)
(* The state machine: one action per function, each a whole call.          *)
(***************************************************************************)
Seg_o == <<"o">>
Seg_d == <<"d">>
Seg_p == <<"p">>
Seg_m == <<"m">>
Seg_c == <<"c">>
Seg_q == <<"q">>
Seg_tdb == <<"t">> \o DotDb
Seg_n == <<"n">>

\* Path strings the tasks are called with.
P_data_o == DataRoot \o <<"/">> \o Seg_o
P_data_tdb == DataRoot \o <<"/">> \o Seg_tdb
P_data_q == DataRoot \o <<"/">> \o Seg_q
P_data_m == DataRoot \o <<"/">> \o Seg_m
P_data_c == DataRoot \o <<"/">> \o Seg_c
P_etc_p == <<"/">> \o Etc \o <<"/">> \o Seg_p
P_data_up_etc_p == DataRoot \o <<"/", ".", ".">> \o P_etc_p
P_up_etc_p == <<".", ".">> \o P_etc_p
P_o == Seg_o
P_d_o == Seg_d \o <<"/">> \o Seg_o
P_n == Seg_n

\* The input paths each task is called with (None is a value that is no
\* path), and the output paths of all of them.
\* No file exists at P_n before B5 is called with it.
DbArgs ==
    {S(P_data_tdb), S(P_data_q), S(P_n), S(P_etc_p), S(P_data_up_etc_p), NoneArg}

ImageArgs == {S(P_data_m), S(P_etc_p), NoneArg}

MdArgs ==
    {S(P_data_m), S(P_data_tdb), S(P_etc_p), S(P_data_up_etc_p), S(P_up_etc_p),
     NoneArg}

CsvArgs == {S(P_data_c), S(P_data_m), S(P_etc_p), S(P_up_etc_p), NoneArg}

OutArgs ==
    {S(P_data_o), S(P_etc_p), S(P_data_up_etc_p), S(P_up_etc_p), S(P_o),
     S(P_d_o), NoneArg}

\* Path strings the guard is checked on: every concatenation of at most
\* MaxTokens tokens.
GuardTokens == {<<"/">>, <<".">>, Data, <<"x">>}

GuardArgs ==
    {S(Flatten(ts)) : ts \in UNION {[1..k -> GuardTokens] : k \in 0..MaxTokens}}
        \cup {NoneArg}

InitFiles ==
    LET locs == {<<Data, Seg_tdb>>, <<Data, Seg_q>>, <<Data, Seg_m>>,
                 <<Data, Seg_c>>, <<Etc, Seg_p>>}
    IN [l \in locs |->
          IF l = <<Data, Seg_tdb>> THEN "sqlite_t"
          ELSE IF l = <<Data, Seg_q>> THEN "duck_t"
          ELSE IF l = <<Data, Seg_m>> THEN "md"
          ELSE IF l = <<Data, Seg_c>> THEN "csv"
          ELSE "secret"]

InitDirs == {<<>>, <<Data>>, <<Etc>>, <<App>>}

\* What the environment does during one call; a task reads only its own fields.
DefaultEnv ==
    [http |-> "-", io |-> "ok", query |-> "-", desc |-> "-", extras |-> "-",
     col |-> "-", val |-> "-"]

NoCall == [task |-> "none", in |-> NoneArg, out |-> NoneArg, env |-> DefaultEnv]

NoRes ==
    [ret |-> "", body |-> <<>>, detail |-> "", log |-> <<>>, eff |-> <<>>,
     exc |-> FALSE, changed |-> {}, created |-> {}, mkdirs |-> {},
     gone |-> {}]

Init ==
    /\ files = InitFiles
    /\ dirs = InitDirs
    /\ call = NoCall
    /\ res = NoRes

\* The call returns r: the filesystem becomes what r left, and res records the
\* result with the files whose content changed, the files and directories
\* created and the files that disappeared.
Finish(task, a, b, e, r) ==
    /\ files' = r.files
    /\ dirs' = r.dirs
    /\ call' = [task |-> task, in |-> a, out |-> b, env |-> e]
    /\ res' = [ret |-> r.ret, body |-> r.body, detail |-> r.detail,
               log |-> r.log, eff |-> r.eff, exc |-> FALSE,
               changed |-> {l \in DOMAIN r.files \cap DOMAIN files :
                              r.files[l] # files[l]},
               created |-> DOMAIN r.files \ DOMAIN files,
               mkdirs |-> r.dirs \ dirs,
               gone |-> DOMAIN files \ DOMAIN r.files]

IO == {"ok", "denied"}

Idle == call = NoCall

CallB3 ==
    /\ Idle
    /\ \E http \in {"json", "raw", "bad_json", "error"}, io \in IO,
          sp \in OutArgs :
          LET e == [DefaultEnv EXCEPT !.http = http, !.io = io]
          IN Finish("B3", NoneArg, sp, e, B3(e, sp, files, dirs))

CallB5 ==
    /\ Idle
    /\ \E q \in {"select1", "drop", "bad"}, io \in IO, db \in DbArgs,
          out \in OutArgs :
          \E dsc \in IF q = "drop" THEN {"cols", "none"} ELSE {"cols"} :
             LET e == [DefaultEnv EXCEPT !.query = q, !.desc = dsc, !.io = io]
             IN Finish("B5", db, out, e, B5(e, db, out, files, dirs))

CallB6 ==
    /\ Idle
    /\ \E http \in {"raw", "error"}, io \in IO, out \in OutArgs :
          LET e == [DefaultEnv EXCEPT !.http = http, !.io = io]
          IN Finish("B6", NoneArg, out, e, B6(e, out, files, dirs))

CallB7 ==
    /\ Idle
    /\ \E img \in ImageArgs, out \in OutArgs :
          Finish("B7", img, out, DefaultEnv,
                 B7(DefaultEnv, img, out, files, dirs))

CallB9 ==
    /\ Idle
    /\ \E x \in {"ok", "bad"}, io \in IO, md \in MdArgs, out \in OutArgs :
          LET e == [DefaultEnv EXCEPT !.extras = x, !.io = io]
          IN Finish("B9", md, out, e, B9(e, md, out, files, dirs))

CallB10 ==
    /\ Idle
    /\ \E col \in {"status", "id", "nope"}, val \in {"active", "inactive", "2"},
          csv \in CsvArgs :
          LET e == [DefaultEnv EXCEPT !.col = col, !.val = val]
          IN Finish("B10", csv, NoneArg, e, B10(e, csv, files, dirs))

\* The caller takes the result; the next call starts from the filesystem
\* this one left.
Return ==
    /\ ~Idle
    /\ call.task # "B12"
    /\ call' = NoCall
    /\ res' = NoRes
    /\ UNCHANGED <<files, dirs>>

Next ==
    CallB3 \/ CallB5 \/ CallB6 \/ CallB7 \/ CallB9 \/ CallB10 \/ Return

Spec == Init /\ [][Next]_vars

\* The guard alone: the argument is drawn from GuardArgs, then B12 is applied.
InitGuard ==
    /\ files = InitFiles
    /\ dirs = InitDirs
    /\ call \in {[task |-> "B12", in |-> P, out |-> NoneArg, env |-> DefaultEnv] :
                    P \in GuardArgs}
    /\ res = NoRes

CallB12 ==
    /\ call.task = "B12"
    /\ res = NoRes
    /\ res' = [NoRes EXCEPT !.ret = IF B12(call.in).ret THEN "True" ELSE "False",
                            !.log = B12(call.in).log,
                            !.exc = B12(call.in).exc]
    /\ UNCHANGED <<files, dirs, call>>

SpecGuard == InitGuard /\ [][CallB12]_vars

(***************************************************************************)
(* Properties                                                              *)
(***************************************************************************)
Called(task) == call.task = task /\ res # NoRes

Ops == {res.eff[i].op : i \in 1..Len(res.eff)}

\* The first five characters are "/data".
HasDataPrefix(s) ==
    /\ Len(s) >= 5
    /\ s[1] = "/" /\ s[2] = "d" /\ s[3] = "a" /\ s[4] = "t" /\ s[5] = "a"

\* C1: for an absolute path P, B12(P) returns true iff str(P) starts with
\* "/data".
C1_AbsoluteIffPrefix ==
    (Called("B12") /\ call.in.t = "str" /\ is_absolute(call.in.s))
        => (res.ret = "True" <=> HasDataPrefix(path_str(call.in.s)))

\* B12 has accepted "/datax", and refused "//data".
C1_Witness ==
    /\ Called("B12")
    /\ call.in.s = DataRoot \o <<"x">>
    /\ res.ret = "True"

\* C2: for a relative path P, ".." segments or not, B12(P) returns true, and
\* the guard of no task refuses P.
C2_RelativeAccepted ==
    (Called("B12") /\ call.in.t = "str" /\ ~is_absolute(call.in.s))
        => /\ res.ret = "True"
           /\ B3_guard(call.in)
           /\ B5_guard(call.in, call.in)
           /\ B6_guard(call.in)
           /\ B7_guard(call.in, call.in)
           /\ B9_guard(call.in, call.in)
           /\ B10_guard(call.in)

\* B12 has accepted "../../x".
C2_Witness ==
    /\ Called("B12")
    /\ call.in.s = <<".", ".", "/", ".", ".", "/", "x">>
    /\ res.ret = "True"

\* C7: B12 lets no exception out and returns a boolean; when Path(...) raises
\* it returns false and writes one log entry; otherwise it writes none and
\* leaves the filesystem alone.
C7_GuardNeverRaises ==
    Called("B12")
        => /\ ~res.exc
           /\ res.ret \in {"True", "False"}
           /\ PathRaises(call.in) => (res.ret = "False" /\ res.log = <<"error">>)
           /\ ~PathRaises(call.in) => res.log = <<>>
           /\ files = InitFiles /\ dirs = InitDirs

\* B12 has turned the exception of Path(None) into False and a log entry.
C7_Witness ==
    /\ Called("B12")
    /\ call.in = NoneArg
    /\ res.ret = "False"
    /\ res.log = <<"error">>

Tasks == {"B3", "B5", "B6", "B7", "B9", "B10"}

\* The path arguments of the call.
PathArgs ==
    IF call.task \in {"B3", "B6"} THEN {call.out}
    ELSE IF call.task = "B10" THEN {call.in}
    ELSE {call.in, call.out}

\* The value the task returns when it fails.
FailureRet ==
    IF call.task = "B5" THEN "None"
    ELSE IF call.task = "B10" THEN "403"
    ELSE "False"

\* C3: when a path argument fails B12, the task returns its failure result
\* and has called nothing outside, created no directory and written no file.
C3_GuardFailStops ==
    (call.task \in Tasks /\ res # NoRes /\ \E a \in PathArgs : ~B12(a).ret)
        => /\ res.ret = FailureRet
           /\ res.eff = <<>>
           /\ res.changed = {} /\ res.created = {} /\ res.mkdirs = {}

\* B5 has refused a call whose database path passes and whose output path
\* is /etc/p.
C3_Witness ==
    /\ Called("B5")
    /\ call.in = S(P_data_tdb)
    /\ call.out = S(P_etc_p)
    /\ call.env.query = "drop"
    /\ res.ret = "None"

\* The calls of res.eff that read or write a file.
FileOps == {"read", "write", "connect", "execute"}

\* C4: every file a task has read or written was addressed by a relative
\* path or by an absolute path whose location is at or under /data.
C4_AccessWithinRoot ==
    \A i \in 1..Len(res.eff) :
        res.eff[i].op \in FileOps
            => \/ ~is_absolute(res.eff[i].path)
               \/ UnderData(res.eff[i].loc)

\* C5: B3, B5, B6, B7 and B9 let no exception out, and every failure ends
\* with False (None for B5) after a log entry.
C5_FailureLogged ==
    (call.task \in {"B3", "B5", "B6", "B7", "B9"} /\ res # NoRes)
        => /\ ~res.exc
           /\ res.ret \in {"True", "False", "None", "rows"}
           /\ res.ret \in {"False", "None"} => res.log # <<>>

\* The rows of the table whose column col holds val.
Matching(col, val) == {i \in 1..Len(CsvRows) : CsvRows[i][col] = val}

\* Reading or filtering the file fails: it is missing, holds no table with
\* the column, or cannot be parsed.
CsvFails ==
    \/ resolve(call.in.s) \notin DOMAIN files
    \/ files[resolve(call.in.s)] # "csv"
    \/ call.env.col \notin CsvColumns

\* C6: B10 answers 403 iff B12(csv_path) is false; when the check passes, 400
\* with the error message if reading or filtering fails, else 200 with the
\* rows whose filter_column equals filter_value.
C6_FilterStatus ==
    Called("B10")
        => /\ res.ret = "403" <=> ~B12(call.in).ret
           /\ (B12(call.in).ret /\ CsvFails)
                 => (res.ret = "400" /\ res.detail # "")
           /\ (B12(call.in).ret /\ ~CsvFails)
                 => /\ res.ret = "200"
                    /\ Len(res.body) = Cardinality(Matching(call.env.col, call.env.val))
                    /\ \A i \in 1..Len(res.body) :
                          /\ res.body[i][call.env.col] = call.env.val
                          /\ \E j \in 1..Len(CsvRows) : CsvRows[j] = res.body[i]
                    /\ \A j \in Matching(call.env.col, call.env.val) :
                          \E i \in 1..Len(res.body) : res.body[i] = CsvRows[j]

\* B10 has answered 200 with the two active rows of three.
C6_Witness ==
    /\ Called("B10")
    /\ call.env.col = "status" /\ call.env.val = "active"
    /\ res.ret = "200"
    /\ Len(res.body) = 2

\* The delegate of the call succeeded and the filesystem allowed writes.
DelegateOk ==
    /\ call.env.io = "ok"
    /\ \/ call.task = "B3" /\ call.env.http \in {"json", "raw"}
       \/ call.task = "B6" /\ call.env.http = "raw"
       \/ call.task = "B5" /\ call.env.query = "select1" /\ "execute" \in Ops
       \/ call.task = "B9" /\ call.env.extras = "ok" /\ "markdown" \in Ops

\* C8: for B3, B5, B6 and B9 and an output path that passes B12, with or
\* without a directory part: when the delegate succeeds the parent directory
\* exists, the result is at the output path and the task returns success.
C8_PersistSucceeds ==
    (call.task \in {"B3", "B5", "B6", "B9"} /\ res # NoRes
        /\ (\A a \in PathArgs : B12(a).ret) /\ DelegateOk)
        => /\ res.ret = IF call.task = "B5" THEN "rows" ELSE "True"
           /\ parent(resolve(call.out.s)) \in dirs
           /\ resolve(call.out.s) \in DOMAIN files
           /\ "write" \in Ops

\* C9: every connection B5 opens is closed before B5 returns.
C9_ConnectionClosed ==
    (Called("B5") /\ "connect" \in Ops) => "close" \in Ops

\* C10: no call deletes a file, B10 changes none, and a file whose content
\* changed is the output path of the call.
C10_NoDeletion ==
    res # NoRes
        => /\ res.gone = {}
           /\ call.task = "B10" => (res.changed = {} /\ res.created = {})
           /\ \A l \in res.changed :
                 call.out.t = "str" /\ l = resolve(call.out.s)

====
